---- MODULE Spec2Model ----
(***************************************************************************)
(* Secure-Password-Manager backend: accounts, master-password hashing,     *)
(* TOTP enrolment and verification, JWT session tokens with a deny list,   *)
(* and the password vault routes.                                          *)
(*                                                                         *)
(* Strings are sequences of one-character strings, so that the validators  *)
(* (strip, length bounds, regular expressions) are computed on the         *)
(* characters as the Python code computes them.  A missing JSON field      *)
(* (None) and the empty string are both the empty sequence: every handler  *)
(* tests them with `not x` before any other use.                           *)
(***************************************************************************)
EXTENDS Integers, Sequences, FiniteSets, TLC

(***************************************************************************)
(* Characters and character classes (Python `re`, str.strip)               *)
(***************************************************************************)
LowerLetters == {"a", "b", "c", "g", "h", "i", "j", "l", "n", "o", "p", "r",
                 "s", "t", "v", "w", "x"}
UpperLetters == {"A", "J", "O", "N", "S"}
Digits == {"0", "1", "5"}
\* [a-zA-Z0-9_] and, for the ASCII inputs used here, \w
WordChars == LowerLetters \cup UpperLetters \cup Digits \cup {"_"}
\* what str.strip() removes and what \s matches
Whitespace == {" ", "\t", "\n"}

\* str.lower() on one character
LowerChar(c) ==
    CASE c = "A" -> "a"
      [] c = "J" -> "j"
      [] c = "O" -> "o"
      [] c = "N" -> "n"
      [] c = "S" -> "s"
      [] OTHER -> c

\* a string literal of n copies of c
Rep(c, n) == [i \in 1..n |-> c]

\* str.strip(): drop leading and trailing whitespace
RECURSIVE LStrip(_)
LStrip(s) == IF s # <<>> /\ Head(s) \in Whitespace THEN LStrip(Tail(s)) ELSE s
RECURSIVE RStrip(_)
RStrip(s) ==
    IF s # <<>> /\ s[Len(s)] \in Whitespace
    THEN RStrip(SubSeq(s, 1, Len(s) - 1))
    ELSE s
Strip(s) == RStrip(LStrip(s))

\* every character of s[a..b] is in class C (true of an empty range)
AllIn(s, a, b, C) == \A i \in a..b : s[i] \in C

\* re.search(lit, s, re.IGNORECASE) for a literal pattern lit (given in lower case)
ContainsIgnoreCase(s, lit) ==
    \E i \in 1..(Len(s) - Len(lit) + 1) :
        \A k \in 1..Len(lit) : LowerChar(s[i + k - 1]) = lit[k]

(***************************************************************************)
(* InputValidationService                                                  *)
(***************************************************************************)
\* ^[a-zA-Z0-9_]+[\._]?[a-zA-Z0-9_]*[@]\w+[\w.-]*[.]\w+$
\* local part: word characters with at most one '.', which is not first;
\* domain: a word character, then [\w.-]*, a '.', and a non-empty run of \w
\* up to the end (so that '.' is the last one of the string).
IsValidEmail(email) ==
    \E at \in 1..Len(email) :
        /\ email[at] = "@"
        /\ at >= 2
        /\ email[1] \in WordChars
        /\ AllIn(email, 2, at - 1, WordChars \cup {"."})
        /\ Cardinality({i \in 2..(at - 1) : email[i] = "."}) <= 1
        /\ \E dot \in (at + 2)..(Len(email) - 1) :
              /\ email[dot] = "."
              /\ email[at + 1] \in WordChars
              /\ AllIn(email, at + 2, dot - 1, WordChars \cup {".", "-"})
              /\ AllIn(email, dot + 1, Len(email), WordChars)

MasterUsernameMaxLen == 80
IsValidMasterUsername(username) ==
    LET u == Strip(username)
    IN  IF ~(1 <= Len(u) /\ Len(u) <= MasterUsernameMaxLen)
        THEN FALSE
        ELSE IsValidEmail(u)

MasterPasswordMinLen == 8
MasterPasswordMaxLen == 512
IsValidMasterPassword(master_password) ==
    LET p == Strip(master_password)
    IN  IF ~(MasterPasswordMinLen <= Len(p) /\ Len(p) <= MasterPasswordMaxLen)
        THEN FALSE
        ELSE TRUE

\* re.search(r"<[^>]*>", s): a '<' followed, after characters that are not
\* '>', by a '>'
HasHtmlTag(s) ==
    \E i \in 1..Len(s) :
        /\ s[i] = "<"
        /\ \E j \in (i + 1)..Len(s) :
              /\ s[j] = ">"
              /\ \A k \in (i + 1)..(j - 1) : s[k] # ">"

\* re.search(r"on\w+\s*=", s, re.IGNORECASE)
HasEventHandler(s) ==
    \E i \in 1..(Len(s) - 1) :
        /\ LowerChar(s[i]) = "o"
        /\ LowerChar(s[i + 1]) = "n"
        /\ \E w \in (i + 2)..Len(s) : \E e \in (w + 1)..Len(s) :
              /\ AllIn(s, i + 2, w, WordChars)
              /\ AllIn(s, w + 1, e - 1, Whitespace)
              /\ s[e] = "="

XssPatterns ==
    { <<"j", "a", "v", "a", "s", "c", "r", "i", "p", "t", ":">>,
      <<"<", "s", "c", "r", "i", "p", "t">>,
      <<"<", "/", "s", "c", "r", "i", "p", "t">>,
      <<"<", "i", "f", "r", "a", "m", "e">>,
      <<"<", "o", "b", "j", "e", "c", "t">>,
      <<"<", "e", "m", "b", "e", "d">> }

\* _contains_xss_risk without the search for an HTML tag
ContainsXssRiskNoTagSearch(user_input) ==
    \/ HasEventHandler(user_input)
    \/ \E lit \in XssPatterns : ContainsIgnoreCase(user_input, lit)

ContainsXssRisk(user_input) ==
    IF HasHtmlTag(user_input)
    THEN TRUE
    ELSE \/ HasEventHandler(user_input)
         \/ \E lit \in XssPatterns : ContainsIgnoreCase(user_input, lit)

AppUsernameMaxLen == 80
IsValidApplicationUsername(username) ==
    /\ 1 <= Len(username)
    /\ Len(username) <= AppUsernameMaxLen
    /\ ~ContainsXssRisk(username)

IsValidApplicationPassword(password) ==
    IsValidMasterPassword(password) /\ ~ContainsXssRisk(password)

AppNameMaxLen == 120
IsValidApplicationName(application_name) ==
    /\ 1 <= Len(application_name)
    /\ Len(application_name) <= AppNameMaxLen
    /\ ~ContainsXssRisk(application_name)

(***************************************************************************)
(* Bounds of the model and the values requests are drawn from              *)
(***************************************************************************)
\* tokens handed out by the issuing routes
MaxTokens == 1
\* rows of the jwt_denylist table
MaxDeny == 1
\* rows ever inserted into the entries table
MaxEntries == 1

UserEmail == <<"a", "@", "b", ".", "c", "o">>
UserPlain == <<"b", "o", "b">>
Usernames == {UserEmail, UserPlain}
PwLong == <<"l", "o", "n", "g", "p", "a", "s", "s">>
PwShort == <<"p", "w">>
Passwords == {PwLong, PwShort}
\* a request field that is missing or empty
Missing == <<>>

\* the instants at which requests arrive (seconds): the same second, the next
\* second, and the seconds around the expiry of a token issued then (which
\* are in a later TOTP step)
ClockValues == {0, 1, 1800, 1801}

(***************************************************************************)
(* State                                                                   *)
(***************************************************************************)
VARIABLES
    users,              \* rows of the users table: [id, username, password, secret]
    denyList,           \* rows of the jwt_denylist table, in id order
    entries,            \* rows of the entries table
    nextEntryId,        \* next value of the entries primary-key sequence
    now,                \* the server's clock, in seconds
    tokens,             \* the tokens the issuing routes have returned so far
    passwordVerified,   \* usernames whose master password login has verified
    resp,               \* the response to the latest request
    call,               \* the latest direct call of a service method
    procs               \* the requests in progress, each with its position

vars == <<users, denyList, entries, nextEntryId, now, tokens,
          passwordVerified, resp, call, procs>>

(***************************************************************************)
(* Argon2Service                                                           *)
(***************************************************************************)
\* parameters of PasswordHasher() and the salts it may draw
Argon2Params == "argon2id-v19-m65536-t3-p4"
Salts == {"salt1"}

\* the digest argon2 computes; distinct inputs give distinct digests
Argon2Digest(params, salt, string) == <<params, salt, string>>

HashPassword(string, salt) ==
    [params |-> Argon2Params, salt |-> salt,
     digest |-> Argon2Digest(Argon2Params, salt, string)]

\* the parameters of a PasswordHasher(time_cost=1, memory_cost=8,
\* parallelism=1), as an earlier or differently configured build has them
OldArgon2Params == "argon2id-v19-m8-t1-p1"
\* old_hasher.hash(string)
OldHasherHash(string, salt) ==
    [params |-> OldArgon2Params, salt |-> salt,
     digest |-> Argon2Digest(OldArgon2Params, salt, string)]

\* a column value that is not an encoded hash: the string as it was given
PlainText(string) == [params |-> "", salt |-> "", digest |-> string]
\* an encoded hash starts with its algorithm and parameters
IsArgon2Hash(stored) == stored.params # ""

\* verify_hash that does not look at the password it is given
VerifyHashAnyPassword(hashed_password, password) == IsArgon2Hash(hashed_password)

\* verifying against a value that is not an encoded hash raises, which
\* verify_hash catches
VerifyHash(hashed_password, password) ==
    IF ~IsArgon2Hash(hashed_password)
    THEN FALSE
    ELSE hashed_password.digest =
            Argon2Digest(hashed_password.params, hashed_password.salt, password)

CheckNeedsRehash(hashed_password) == hashed_password.params # Argon2Params

(***************************************************************************)
(* Tokens (PyJWT compact tokens) and JwtTokenService / JwtToken            *)
(***************************************************************************)
ALG == "HS256"
TOKEN_EXPIRATION_MINUTES == 30
TokenLifetime == TOKEN_EXPIRATION_MINUTES * 60

\* a token string: its framing, the header's alg, the key its signature was
\* made with, and the payload.  HS256 is deterministic: equal fields give the
\* same string.
Jwt(alg, key, sub, iat, exp) ==
    [form |-> "jwt", alg |-> alg, key |-> key, sub |-> sub, iat |-> iat, exp |-> exp]
NoToken(form) ==
    [form |-> form, alg |-> "", key |-> "", sub |-> Missing, iat |-> 0, exp |-> 0]

AbsentToken == NoToken("absent")
EmptyToken == NoToken("empty")
MalformedToken == NoToken("malformed")
\* tokens a client can build without the server's keys
WrongSecretToken == Jwt("HS256", "wrong_secret", UserEmail, 0, 1830)
AlgNoneToken == Jwt("none", "", UserEmail, 0, 1830)
ForgedTokens == {AbsentToken, EmptyToken, MalformedToken, WrongSecretToken, AlgNoneToken}

\* what a request can carry as its token
RequestTokens == tokens \cup ForgedTokens

\* `not encoded_jwt`
Falsy(t) == t.form \in {"absent", "empty"}

\* JwtTokenService._encode_jwt / generate_jwt; iat and exp come from two
\* reads of the clock, exp_now being the second one
EncodeJwt(key, username, iat, exp) == Jwt("HS256", key, username, iat, exp)
\* generate_jwt with an "iat" that does not follow the clock
GenerateJwtFixedIat(username, exp_now) ==
    EncodeJwt("JWT_SECRET", username, 0, TokenLifetime)

GenerateJwt(username, exp_now) ==
    EncodeJwt("JWT_SECRET", username, now, exp_now + TokenLifetime)

\* JwtToken.generate_jwt of jwt_session_management, signed with its SECRET_KEY
LegacyGenerateJwt(user_id, exp_now) ==
    EncodeJwt("SECRET_KEY", user_id, now, exp_now + TokenLifetime)

\* tokens whose header names another algorithm than HS256: HS512 under the
\* server's secret, and "none" with a signature segment made with it
Hs512Token == Jwt("HS512", "JWT_SECRET", UserEmail, 0, 1830)
AlgNoneSignedToken == Jwt("none", "JWT_SECRET", UserEmail, 0, 1830)
AlgTokens == {AlgNoneToken, AlgNoneSignedToken, Hs512Token}

\* jwt.decode that follows the algorithm the token's header names
JwtDecodeUnpinned(token, key, algorithms, t) ==
    IF token.form \in {"absent", "empty", "malformed"}
    THEN [ok |-> FALSE, error |-> "DecodeError", sub |-> Missing]
    ELSE IF token.alg # "none" /\ token.key # key
    THEN [ok |-> FALSE, error |-> "InvalidSignatureError", sub |-> Missing]
    ELSE IF token.exp <= t
    THEN [ok |-> FALSE, error |-> "ExpiredSignatureError", sub |-> Missing]
    ELSE [ok |-> TRUE, error |-> "", sub |-> token.sub]

\* jwt.decode(token, key, algorithms=[...]) at clock value t: the payload, or
\* the exception PyJWT raises
JwtDecode(token, key, algorithms, t) ==
    IF token.form \in {"absent", "empty", "malformed"}
    THEN [ok |-> FALSE, error |-> "DecodeError", sub |-> Missing]
    ELSE IF token.alg \notin algorithms
    THEN [ok |-> FALSE, error |-> "InvalidAlgorithmError", sub |-> Missing]
    ELSE IF token.key # key
    THEN [ok |-> FALSE, error |-> "InvalidSignatureError", sub |-> Missing]
    ELSE IF token.exp <= t
    THEN [ok |-> FALSE, error |-> "ExpiredSignatureError", sub |-> Missing]
    ELSE [ok |-> TRUE, error |-> "", sub |-> token.sub]

\* JwtDenyList.query.filter_by(token=...).first()
OnDenyList(deny, token) == \E i \in 1..Len(deny) : deny[i] = token

\* validate_jwt without the deny-list lookup
ValidateJwtAtNoDenyList(deny, t, encoded_jwt) ==
    JwtDecode(encoded_jwt, "JWT_SECRET", {"HS256"}, t).ok

\* JwtTokenService.validate_jwt against deny list `deny` at clock value t
ValidateJwtAt(deny, t, encoded_jwt) ==
    IF OnDenyList(deny, encoded_jwt)
    THEN FALSE
    ELSE JwtDecode(encoded_jwt, "JWT_SECRET", {"HS256"}, t).ok
ValidateJwt(encoded_jwt) == ValidateJwtAt(denyList, now, encoded_jwt)

\* the exceptions get_username_from_jwt catches: ExpiredSignatureError, and
\* InvalidTokenError with its subclasses
CaughtByGetUsername ==
    {"ExpiredSignatureError", "InvalidTokenError", "DecodeError",
     "InvalidSignatureError", "InvalidAlgorithmError"}

\* get_username_from_jwt catching ExpiredSignatureError only
GetUsernameOutcomeCatchExpiredOnly(encoded_jwt, t) ==
    LET decoded == JwtDecode(encoded_jwt, "JWT_SECRET", {ALG}, t)
    IN  IF decoded.ok
        THEN [result |-> "value", value |-> decoded.sub]
        ELSE IF decoded.error = "ExpiredSignatureError"
        THEN [result |-> "None", value |-> Missing]
        ELSE [result |-> decoded.error, value |-> Missing]

\* JwtTokenService.get_username_from_jwt at clock value t: it returns the
\* subject, returns None, or lets the exception of jwt.decode out
GetUsernameOutcome(encoded_jwt, t) ==
    LET decoded == JwtDecode(encoded_jwt, "JWT_SECRET", {ALG}, t)
    IN  IF decoded.ok
        THEN [result |-> "value", value |-> decoded.sub]
        ELSE IF decoded.error \in CaughtByGetUsername
        THEN [result |-> "None", value |-> Missing]
        ELSE [result |-> decoded.error, value |-> Missing]

\* the subject get_username_from_jwt returns now, Missing for None
GetUsernameFromJwt(encoded_jwt) == GetUsernameOutcome(encoded_jwt, now).value

(***************************************************************************)
(* Totp                                                                    *)
(***************************************************************************)
Secrets == {"SECRETA", "SECRETB"}
NoSecret == ""
TotpInterval == 30
\* pyotp.TOTP(secret).at(t): the code of time step t \div 30; distinct
\* (secret, step) pairs give distinct codes
TotpAt(secret, t) == <<secret, t \div TotpInterval>>
WrongCode == <<"000000">>
\* codes a request may carry: a code of any secret for any step, or a wrong one
Codes == {TotpAt(s, t) : s \in Secrets, t \in ClockValues} \cup {WrongCode}

\* totp.verify with valid_window = 1: the steps before and after count too
VerifyTotpCodeWindowOne(secret, user_code) ==
    \E d \in -1..1 :
        /\ now + d * TotpInterval >= 0
        /\ user_code = TotpAt(secret, now + d * TotpInterval)

\* Totp.verify_totp_code; pyotp's verify has valid_window = 0
VerifyTotpCode(secret, user_code) == user_code = TotpAt(secret, now)

\* Totp.verify_totp_code with its guard: what it returns or raises
VerifyTotpCodeOutcome(secret, user_code) ==
    IF secret = NoSecret \/ user_code = Missing
    THEN "ValueError"
    ELSE IF VerifyTotpCode(secret, user_code) THEN "True" ELSE "False"

\* the steps around the current one whose codes a client may send
DriftSteps == -2..2
CodesNear(secret) ==
    {TotpAt(secret, now + d * TotpInterval) :
        d \in {x \in DriftSteps : now + x * TotpInterval >= 0}}

(***************************************************************************)
(* Requests and responses                                                  *)
(***************************************************************************)
\* a request and its response: the handler, the token the request carried
\* (vault routes), the HTTP status (or, for a service call, what it returned
\* or raised), the payload that matters (an issued token, the listed
\* entries) and the text of the "error" key
VaultResponse(op, jwt, status, body) ==
    [op |-> op, jwt |-> jwt, status |-> status, body |-> body, error |-> ""]
Response(op, status, body) == VaultResponse(op, AbsentToken, status, body)
\* an error response: jsonify({"error": error}), status
VaultError(op, jwt, status, error) ==
    [op |-> op, jwt |-> jwt, status |-> status, body |-> {}, error |-> error]
Error(op, status, error) == VaultError(op, AbsentToken, status, error)

\* User.query.filter_by(username=...).first()
UserRows(username) == {u \in users : u.username = username}
UserExists(username) == UserRows(username) # {}
UserRow(username) == CHOOSE u \in UserRows(username) : TRUE

\* the second reading of the clock inside one generate_jwt call: the same
\* second, or the next one
SecondReads == {t \in ClockValues : t = now \/ t = now + 1}

NameA == <<"g", "h">>
NameB == <<"v", "p", "n">>
NameTag == <<"<", "b", ">">>
AppUserA == <<"o", "c", "t", "o">>
AppUserHandler == <<"o", "n", "x", "=">>
\* one character more than the username column and its validator allow
AppUserTooLong == [i \in 1..(AppUsernameMaxLen + 1) |-> "x"]
\* the application, application_username and password fields of a vault
\* request: two valid triples, and triples with one field invalid or missing
VaultFields ==
    { <<NameA, AppUserA, PwLong>>, <<NameB, AppUserA, PwLong>>,
      <<NameTag, AppUserA, PwLong>>, <<NameA, AppUserHandler, PwLong>>,
      <<NameA, AppUserA, PwShort>>, <<NameA, AppUserA, Missing>>,
      <<NameA, AppUserTooLong, PwLong>> }
\* the "id" field of a vault request; 0 is a missing id
EntryIds == 0..MaxEntries

\* a direct call of a service method, as the unit tests make them: the method,
\* its arguments, the clock at the call, what it returned or raised, the
\* subject it returned, and the id of the row it inserted (0: none)
Call(fn, token, secret, code, result, value, row) ==
    [fn |-> fn, token |-> token, secret |-> secret, code |-> code, at |-> now,
     result |-> result, value |-> value, row |-> row]
NoCall ==
    [fn |-> "none", token |-> AbsentToken, secret |-> NoSecret, code |-> Missing,
     at |-> 0, result |-> "", value |-> Missing, row |-> 0]
\* str(bool)
BoolStr(b) == IF b THEN "True" ELSE "False"

\* the requests served at the same time; a request not yet received
Procs == {"p1", "p2", "p3"}
IdleProc ==
    [kind |-> "none", pc |-> "idle", token |-> AbsentToken,
     after_revoke |-> FALSE, found |-> FALSE, result |-> ""]

Init ==
    /\ users = {}
    /\ denyList = <<>>
    /\ entries = {}
    /\ nextEntryId = 1
    /\ now = 0
    /\ tokens = {}
    /\ passwordVerified = {}
    /\ resp = Response("none", "", {})
    /\ call = NoCall
    /\ procs = [p \in Procs |-> IdleProc]

(***************************************************************************)
(* user_route.py                                                           *)
(***************************************************************************)
\* register_user without the required-fields check
RegisterUserNoRequiredCheck(new_username, new_password, salt) ==
    /\ IF UserExists(new_username)
       THEN /\ resp' = Error("register", "409", "Username already exists")
            /\ users' = users
       ELSE /\ users' = users \cup
                    {[id |-> Cardinality(users) + 1,
                      username |-> new_username,
                      password |-> HashPassword(new_password, salt),
                      secret |-> NoSecret]}
            /\ resp' = Response("register", "201", {})
    /\ UNCHANGED <<denyList, entries, nextEntryId, now, tokens,
                   passwordVerified>>

\* register_user without the lookup of an existing account, so that a
\* second registration replaces the stored row
RegisterUserNoExistsCheck(new_username, new_password, salt) ==
    /\ IF new_username = Missing \/ new_password = Missing
       THEN /\ resp' = Error("register", "400", "Username and password are required")
            /\ users' = users
       ELSE /\ users' = (users \ UserRows(new_username)) \cup
                    {[id |-> Cardinality(users \ UserRows(new_username)) + 1,
                      username |-> new_username,
                      password |-> HashPassword(new_password, salt),
                      secret |-> NoSecret]}
            /\ resp' = Response("register", "201", {})
    /\ UNCHANGED <<denyList, entries, nextEntryId, now, tokens,
                   passwordVerified>>

RegisterUser(new_username, new_password, salt) ==
    /\ IF new_username = Missing \/ new_password = Missing
       THEN /\ resp' = Error("register", "400", "Username and password are required")
            /\ users' = users
       ELSE IF UserExists(new_username)
       THEN /\ resp' = Error("register", "409", "Username already exists")
            /\ users' = users
       ELSE /\ users' = users \cup
                    {[id |-> Cardinality(users) + 1,
                      username |-> new_username,
                      password |-> HashPassword(new_password, salt),
                      secret |-> NoSecret]}
            /\ resp' = Response("register", "201", {})
    /\ UNCHANGED <<denyList, entries, nextEntryId, now, tokens,
                   passwordVerified>>

\* register_user as a build whose PasswordHasher has the older parameters
\* ran it: the rows such a build left in the users table
RegisterUserOldHasher(new_username, new_password, salt) ==
    /\ IF new_username = Missing \/ new_password = Missing
       THEN /\ resp' = Error("register", "400", "Username and password are required")
            /\ users' = users
       ELSE IF UserExists(new_username)
       THEN /\ resp' = Error("register", "409", "Username already exists")
            /\ users' = users
       ELSE /\ users' = users \cup
                    {[id |-> Cardinality(users) + 1,
                      username |-> new_username,
                      password |-> OldHasherHash(new_password, salt),
                      secret |-> NoSecret]}
            /\ resp' = Response("register", "201", {})
    /\ UNCHANGED <<denyList, entries, nextEntryId, now, tokens,
                   passwordVerified>>

\* login that tells an unknown username apart from a wrong password
LoginUserNotFound(username, password, salt) ==
    /\ IF username = Missing \/ password = Missing
       THEN /\ resp' = Error("login", "400", "Username and password are required")
            /\ UNCHANGED <<users, passwordVerified>>
       ELSE IF ~UserExists(username)
       THEN /\ resp' = Error("login", "404", "User not found")
            /\ UNCHANGED <<users, passwordVerified>>
       ELSE LET user == UserRow(username)
            IN  IF ~VerifyHash(user.password, password)
                THEN /\ resp' = Error("login", "401", "Invalid credentials")
                     /\ UNCHANGED <<users, passwordVerified>>
                ELSE /\ users' =
                            IF CheckNeedsRehash(user.password)
                            THEN (users \ {user}) \cup
                                 {[user EXCEPT !.password = HashPassword(password, salt)]}
                            ELSE users
                     /\ passwordVerified' = passwordVerified \cup {username}
                     /\ resp' = Response("login", "200", {})
    /\ UNCHANGED <<denyList, entries, nextEntryId, now, tokens>>

\* login that leaves the stored hash as it is
LoginNoRehash(username, password, salt) ==
    /\ IF username = Missing \/ password = Missing
       THEN /\ resp' = Error("login", "400", "Username and password are required")
            /\ UNCHANGED <<users, passwordVerified>>
       ELSE IF ~UserExists(username)
       THEN /\ resp' = Error("login", "401", "Invalid credentials")
            /\ UNCHANGED <<users, passwordVerified>>
       ELSE LET user == UserRow(username)
            IN  IF ~VerifyHash(user.password, password)
                THEN /\ resp' = Error("login", "401", "Invalid credentials")
                     /\ UNCHANGED <<users, passwordVerified>>
                ELSE /\ users' = users
                     /\ passwordVerified' = passwordVerified \cup {username}
                     /\ resp' = Response("login", "200", {})
    /\ UNCHANGED <<denyList, entries, nextEntryId, now, tokens>>

Login(username, password, salt) ==
    /\ IF username = Missing \/ password = Missing
       THEN /\ resp' = Error("login", "400", "Username and password are required")
            /\ UNCHANGED <<users, passwordVerified>>
       ELSE IF ~UserExists(username)
       THEN /\ resp' = Error("login", "401", "Invalid credentials")
            /\ UNCHANGED <<users, passwordVerified>>
       ELSE LET user == UserRow(username)
            IN  IF ~VerifyHash(user.password, password)
                THEN /\ resp' = Error("login", "401", "Invalid credentials")
                     /\ UNCHANGED <<users, passwordVerified>>
                ELSE /\ users' =
                            IF CheckNeedsRehash(user.password)
                            THEN (users \ {user}) \cup
                                 {[user EXCEPT !.password = HashPassword(password, salt)]}
                            ELSE users
                     /\ passwordVerified' = passwordVerified \cup {username}
                     /\ resp' = Response("login", "200", {})
    /\ UNCHANGED <<denyList, entries, nextEntryId, now, tokens>>

(***************************************************************************)
(* users_routes.py: the earlier blueprint for /user/register, on the same  *)
(* users table                                                             *)
(***************************************************************************)
\* User(username = new_username, password = new_password): the column gets
\* the password as posted; a taken username fails the unique constraint at
\* the commit, which is rolled back
LegacyRegisterUser(new_username, new_password, salt) ==
    /\ IF new_username = Missing \/ new_password = Missing
       THEN /\ resp' = Error("register", "400", "Username and password are required")
            /\ users' = users
       ELSE IF UserExists(new_username)
       THEN /\ resp' = Error("register", "500", "IntegrityError")
            /\ users' = users
       ELSE /\ users' = users \cup
                    {[id |-> Cardinality(users) + 1,
                      username |-> new_username,
                      password |-> PlainText(new_password),
                      secret |-> NoSecret]}
            /\ resp' = Response("register", "201", {})
    /\ UNCHANGED <<denyList, entries, nextEntryId, now, tokens,
                   passwordVerified>>

(***************************************************************************)
(* totp_route.py                                                           *)
(***************************************************************************)
\* qr_fails: generating or sending the QR image raises after the commit
SetupTotp(username, secret, qr_fails) ==
    /\ IF username = Missing
       THEN /\ resp' = Error("setup_totp", "400", "Username is required")
            /\ users' = users
       ELSE IF ~UserExists(username)
       THEN /\ resp' = Error("setup_totp", "401", "User not found")
            /\ users' = users
       ELSE LET user == UserRow(username)
            IN  /\ users' = (users \ {user}) \cup {[user EXCEPT !.secret = secret]}
                /\ resp' = IF qr_fails
                          THEN Error("setup_totp", "500", "Failed to generate TOTP setup")
                          ELSE Response("setup_totp", "200", {})
    /\ UNCHANGED <<denyList, entries, nextEntryId, now, tokens,
                   passwordVerified>>

VerifyTotp(username, user_code, exp_now) ==
    /\ IF username = Missing \/ user_code = Missing
       THEN /\ resp' = Error("verify_totp", "400", "Username and code are required")
            /\ UNCHANGED <<tokens, now>>
       ELSE IF ~UserExists(username)
       THEN /\ resp' = Error("verify_totp", "401", "Username not found")
            /\ UNCHANGED <<tokens, now>>
       ELSE LET secret == UserRow(username).secret
            IN  IF secret = NoSecret
                THEN /\ resp' = Error("verify_totp", "404", "TOTP not set up for this user")
                     /\ UNCHANGED <<tokens, now>>
                ELSE IF VerifyTotpCode(secret, user_code)
                THEN LET jwt == GenerateJwt(username, exp_now)
                     IN  /\ tokens' = tokens \cup {jwt}
                         /\ now' = exp_now
                         /\ resp' = Response("verify_totp", "200", {jwt})
                ELSE /\ resp' = Error("verify_totp", "401", "Invalid TOTP code")
                     /\ UNCHANGED <<tokens, now>>
    /\ UNCHANGED <<users, denyList, entries, nextEntryId, passwordVerified>>

(***************************************************************************)
(* route/jtw_route.py                                                      *)
(***************************************************************************)
GenerateJwtSessionToken(username, exp_now) ==
    /\ IF username = Missing
       THEN /\ resp' = Error("jwt_setup", "400", "Username is required")
            /\ UNCHANGED <<tokens, now>>
       ELSE LET jwt == LegacyGenerateJwt(username, exp_now)
            IN  /\ tokens' = tokens \cup {jwt}
                /\ now' = exp_now
                /\ resp' = Response("jwt_setup", "200", {jwt})
    /\ UNCHANGED <<users, denyList, entries, nextEntryId,
                   passwordVerified>>

(***************************************************************************)
(* JwtTokenService.add_jwt_to_deny_list                                    *)
(***************************************************************************)
\* add_jwt_to_deny_list that overwrites the table instead of adding a row
AddJwtToDenyListOverwrite(encoded_jwt) ==
    /\ IF Falsy(encoded_jwt)
       THEN /\ resp' = Error("revoke", "ValueError", "Token cannot be empty or None")
            /\ denyList' = denyList
       ELSE /\ denyList' = <<encoded_jwt>>
            /\ resp' = Response("revoke", "None", {})
    /\ UNCHANGED <<users, entries, nextEntryId, now, tokens,
                   passwordVerified>>

\* add_jwt_to_deny_list without the `if not encoded_jwt` guard
AddJwtToDenyListNoEmptyCheck(encoded_jwt) ==
    /\ denyList' = Append(denyList, encoded_jwt)
    /\ resp' = Response("revoke", "None", {})
    /\ UNCHANGED <<users, entries, nextEntryId, now, tokens,
                   passwordVerified>>

\* add_jwt_to_deny_list on a table whose token column is unique: a second
\* row with the same token raises
AddJwtToDenyListUnique(encoded_jwt) ==
    /\ IF Falsy(encoded_jwt)
       THEN /\ resp' = Error("revoke", "ValueError", "Token cannot be empty or None")
            /\ denyList' = denyList
       ELSE IF OnDenyList(denyList, encoded_jwt)
       THEN /\ resp' = Error("revoke", "IntegrityError", "UNIQUE constraint failed")
            /\ denyList' = denyList
       ELSE /\ denyList' = Append(denyList, encoded_jwt)
            /\ resp' = Response("revoke", "None", {})
    /\ UNCHANGED <<users, entries, nextEntryId, now, tokens,
                   passwordVerified>>

\* add_jwt_to_deny_list that also records another token issued so far
AddJwtToDenyListOtherTokenToo(encoded_jwt) ==
    /\ IF Falsy(encoded_jwt)
       THEN /\ resp' = Error("revoke", "ValueError", "Token cannot be empty or None")
            /\ denyList' = denyList
       ELSE /\ denyList' =
                    IF tokens \ {encoded_jwt} = {}
                    THEN Append(denyList, encoded_jwt)
                    ELSE Append(Append(denyList, encoded_jwt),
                                CHOOSE t \in tokens \ {encoded_jwt} : TRUE)
            /\ resp' = Response("revoke", "None", {})
    /\ UNCHANGED <<users, entries, nextEntryId, now, tokens,
                   passwordVerified>>

AddJwtToDenyList(encoded_jwt) ==
    /\ IF Falsy(encoded_jwt)
       THEN /\ resp' = Error("revoke", "ValueError", "Token cannot be empty or None")
            /\ denyList' = denyList
       ELSE /\ denyList' = Append(denyList, encoded_jwt)
            /\ resp' = Response("revoke", "None", {})
    /\ UNCHANGED <<users, entries, nextEntryId, now, tokens,
                   passwordVerified>>

(***************************************************************************)
(* pw_manager_route.py.  An entries row holds the columns the routes read  *)
(* and write: id, user_id, application, username, password.                *)
(***************************************************************************)
\* the vault routes' token check without the call of validate_jwt
VaultAuthorizedPresenceOnly(jwt) == ~Falsy(jwt)

\* the vault routes' token check: `not jwt or not jwt_token.validate_jwt(jwt)`
\* is false
VaultAuthorized(jwt) == ~Falsy(jwt) /\ ValidateJwt(jwt)

\* Entry.query.filter_by(id=id_).first(), looked up only `if id_`
EntryById(id_) == IF id_ # 0 THEN {e \in entries : e.id = id_} ELSE {}
\* Entry.query.filter_by(user_id=..., id=id_).first()
EntryOfUser(user_id, id_) == {e \in entries : e.user_id = user_id /\ e.id = id_}

\* add_update_password without the InputValidationService checks
AddUpdatePasswordNoValidation(jwt, application_name, application_username, password, id_) ==
    /\ IF ~VaultAuthorized(jwt)
       THEN /\ resp' = VaultError("add_update_password", jwt, "400",
                                  "JWT token expired or invalid")
            /\ UNCHANGED <<entries, nextEntryId>>
       ELSE IF \/ application_name = Missing
               \/ application_username = Missing
               \/ password = Missing
       THEN /\ resp' = VaultError("add_update_password", jwt, "400",
                                  "Application name, application username, and password are required")
            /\ UNCHANGED <<entries, nextEntryId>>
       ELSE IF ~UserExists(GetUsernameFromJwt(jwt))
       THEN /\ resp' = VaultError("add_update_password", jwt, "404",
                                  "User not found")
            /\ UNCHANGED <<entries, nextEntryId>>
       ELSE LET user == UserRow(GetUsernameFromJwt(jwt))
                existing_entry == EntryById(id_)
            IN  IF existing_entry # {}
                THEN /\ entries' =
                            (entries \ existing_entry) \cup
                            {[e EXCEPT !.application = application_name,
                                       !.username = application_username,
                                       !.password = password] : e \in existing_entry}
                     /\ nextEntryId' = nextEntryId
                     /\ resp' = VaultResponse("add_update_password", jwt, "201", {})
                ELSE /\ entries' = entries \cup
                            {[id |-> nextEntryId,
                              user_id |-> user.id,
                              application |-> application_name,
                              username |-> application_username,
                              password |-> password]}
                     /\ nextEntryId' = nextEntryId + 1
                     /\ resp' = VaultResponse("add_update_password", jwt, "201", {})
    /\ UNCHANGED <<users, denyList, now, tokens, passwordVerified>>

AddUpdatePassword(jwt, application_name, application_username, password, id_) ==
    /\ IF ~VaultAuthorized(jwt)
       THEN /\ resp' = VaultError("add_update_password", jwt, "400",
                                  "JWT token expired or invalid")
            /\ UNCHANGED <<entries, nextEntryId>>
       ELSE IF \/ application_name = Missing
               \/ application_username = Missing
               \/ password = Missing
       THEN /\ resp' = VaultError("add_update_password", jwt, "400",
                                  "Application name, application username, and password are required")
            /\ UNCHANGED <<entries, nextEntryId>>
       ELSE IF ~UserExists(GetUsernameFromJwt(jwt))
       THEN /\ resp' = VaultError("add_update_password", jwt, "404",
                                  "User not found")
            /\ UNCHANGED <<entries, nextEntryId>>
       ELSE IF \/ ~IsValidApplicationUsername(application_username)
               \/ ~IsValidApplicationPassword(password)
               \/ ~IsValidApplicationName(application_name)
       THEN /\ resp' = VaultError("add_update_password", jwt, "400",
                                  "Application name, username, or password are invalid")
            /\ UNCHANGED <<entries, nextEntryId>>
       ELSE LET user == UserRow(GetUsernameFromJwt(jwt))
                existing_entry == EntryById(id_)
            IN  IF existing_entry # {}
                THEN /\ entries' =
                            (entries \ existing_entry) \cup
                            {[e EXCEPT !.application = application_name,
                                       !.username = application_username,
                                       !.password = password] : e \in existing_entry}
                     /\ nextEntryId' = nextEntryId
                     /\ resp' = VaultResponse("add_update_password", jwt, "201", {})
                ELSE /\ entries' = entries \cup
                            {[id |-> nextEntryId,
                              user_id |-> user.id,
                              application |-> application_name,
                              username |-> application_username,
                              password |-> password]}
                     /\ nextEntryId' = nextEntryId + 1
                     /\ resp' = VaultResponse("add_update_password", jwt, "201", {})
    /\ UNCHANGED <<users, denyList, now, tokens, passwordVerified>>

DeletePassword(jwt, id_) ==
    /\ IF ~VaultAuthorized(jwt)
       THEN /\ resp' = VaultError("delete_password", jwt, "400",
                                  "JWT token expired or invalid")
            /\ entries' = entries
       ELSE IF id_ = 0
       THEN /\ resp' = VaultError("delete_password", jwt, "400",
                                  "Application ID is required")
            /\ entries' = entries
       ELSE IF ~UserExists(GetUsernameFromJwt(jwt))
       THEN /\ resp' = VaultError("delete_password", jwt, "404",
                                  "User not found")
            /\ entries' = entries
       ELSE LET user == UserRow(GetUsernameFromJwt(jwt))
                entry == EntryOfUser(user.id, id_)
            IN  IF entry = {}
                THEN /\ resp' = VaultError("delete_password", jwt, "404",
                                  "Password entry not found for this application")
                     /\ entries' = entries
                ELSE /\ entries' = entries \ entry
                     /\ resp' = VaultResponse("delete_password", jwt, "200", {})
    /\ UNCHANGED <<users, denyList, nextEntryId, now, tokens,
                   passwordVerified>>

GetAllPasswords(jwt) ==
    /\ IF ~VaultAuthorized(jwt)
       THEN resp' = VaultError("get_all_passwords", jwt, "400",
                            "JWT token expired or invalid")
       ELSE IF ~UserExists(GetUsernameFromJwt(jwt))
       THEN resp' = VaultError("get_all_passwords", jwt, "404",
                            "User not found")
       ELSE LET user == UserRow(GetUsernameFromJwt(jwt))
            IN  resp' = VaultResponse("get_all_passwords", jwt, "200",
                    {[id |-> e.id,
                      application_name |-> e.application,
                      application_username |-> e.username,
                      password |-> e.password] :
                        e \in {x \in entries : x.user_id = user.id}})
    /\ UNCHANGED <<users, denyList, entries, nextEntryId, now, tokens,
                   passwordVerified>>

(***************************************************************************)
(* The clock, and the system                                               *)
(***************************************************************************)
\* time passes, up to instant t
TickTo(t) ==
    /\ t > now
    /\ now' = t
    /\ UNCHANGED <<users, denyList, entries, nextEntryId, tokens,
                   passwordVerified, resp>>

\* the bounds of the model, as a constraint on the state an operation leaves
WithinBounds ==
    /\ Cardinality(tokens') <= MaxTokens
    /\ Len(denyList') <= MaxDeny
    /\ nextEntryId' <= MaxEntries + 1

(***************************************************************************)
(* Spec: registration, login, MFA enrolment and the token-issuing routes,  *)
(* for two usernames, two passwords and two TOTP secrets.                  *)
(***************************************************************************)
DoRegisterUser ==
    \E u \in Usernames \cup {Missing}, p \in Passwords \cup {Missing}, salt \in Salts :
        RegisterUser(u, p, salt) /\ UNCHANGED <<call, procs>>
DoLogin ==
    \E u \in Usernames \cup {Missing}, p \in Passwords \cup {Missing}, salt \in Salts :
        Login(u, p, salt) /\ UNCHANGED <<call, procs>>
DoSetupTotp ==
    \E u \in Usernames \cup {Missing}, s \in Secrets, qr_fails \in BOOLEAN :
        SetupTotp(u, s, qr_fails) /\ UNCHANGED <<call, procs>>
DoVerifyTotp ==
    \E u \in Usernames \cup {Missing}, c \in Codes \cup {Missing} :
        VerifyTotp(u, c, now) /\ WithinBounds /\ UNCHANGED <<call, procs>>
DoGenerateJwtSessionToken ==
    \E u \in {UserEmail, Missing} :
        GenerateJwtSessionToken(u, now) /\ WithinBounds /\ UNCHANGED <<call, procs>>

\* here the clock only moves on to a later TOTP step
DoTick == TickTo(1800) /\ UNCHANGED <<call, procs>>

Next ==
    \/ DoRegisterUser
    \/ DoLogin
    \/ DoSetupTotp
    \/ DoVerifyTotp
    \/ DoGenerateJwtSessionToken
    \/ DoTick

Spec == Init /\ [][Next]_vars

(***************************************************************************)
(* SpecLegacy: the users table written by both register_user handlers and  *)
(* read by login.                                                          *)
(***************************************************************************)
LegacyDoRegisterUser ==
    \E u \in Usernames \cup {Missing}, p \in Passwords \cup {Missing}, salt \in Salts :
        LegacyRegisterUser(u, p, salt) /\ UNCHANGED <<call, procs>>

NextLegacy ==
    \/ LegacyDoRegisterUser
    \/ DoRegisterUser
    \/ DoLogin
    \/ DoSetupTotp

SpecLegacy == Init /\ [][NextLegacy]_vars

(***************************************************************************)
(* SpecRehash: a users table with rows hashed under the current and under  *)
(* the older parameters, read and rewritten by login.                      *)
(***************************************************************************)
\* the salt a rehash draws: a fresh one, not the salt of any stored row
RehashSalts == {"salt2"}
RehashRegisterUser ==
    \E u \in Usernames, p \in Passwords \cup {Missing}, salt \in Salts :
        RegisterUser(u, p, salt) /\ UNCHANGED <<call, procs>>
RehashRegisterUserOldHasher ==
    \E u \in Usernames, p \in Passwords, salt \in Salts :
        RegisterUserOldHasher(u, p, salt) /\ UNCHANGED <<call, procs>>
RehashLogin ==
    \E u \in Usernames \cup {Missing}, p \in Passwords \cup {Missing},
       salt \in RehashSalts :
        Login(u, p, salt) /\ UNCHANGED <<call, procs>>

NextRehash ==
    \/ RehashRegisterUser
    \/ RehashRegisterUserOldHasher
    \/ RehashLogin

SpecRehash == Init /\ [][NextRehash]_vars

(***************************************************************************)
(* SpecValidator: the InputValidationService checks called directly, as    *)
(* their unit tests call them, on strings at the length bounds, with       *)
(* surrounding whitespace, and with and without XSS-risk patterns.         *)
(***************************************************************************)
\* the lengths of the strings of one repeated letter
ValidatorLengths == {0, 1, 7, 8, 80, 81, 120, 121, 255, 256, 512, 513}
EmailTail == <<"@", "b", ".", "c", "o">>
JavaScriptUrl == <<"J", "a", "v", "a", "S", "c", "r", "i", "p", "t", ":", "x">>
\* "5 < 10" and "5<10>5"
FiveLtTen == <<"5", " ", "<", " ", "1", "0">>
MathPair == <<"5", "<", "1", "0", ">", "5">>
OnWord == <<"o", "n", " ", "a", "i", "r">>
ScriptOpen == <<"<", "S", "c", "r", "i", "p", "t">>
ValidatorInputs ==
    {Rep("a", n) : n \in ValidatorLengths}
    \cup { <<" ">> \o Rep("a", 8) \o <<" ">>, <<" ">> \o Rep("a", 7),
           Rep(" ", 8), <<" ">> \o Rep("a", 80) \o <<" ">> }
    \cup { UserEmail, UserPlain, <<" ">> \o UserEmail,
           Rep("a", 75) \o EmailTail, Rep("a", 76) \o EmailTail }
    \cup { NameTag, AppUserHandler, JavaScriptUrl, FiveLtTen, MathPair, OnWord,
           ScriptOpen, Rep("a", 8) \o ScriptOpen,
           Rep("a", 8) \o NameTag, Rep("a", 8) \o AppUserHandler,
           Rep("a", 8) \o JavaScriptUrl, Rep("a", 8) \o FiveLtTen,
           Rep("a", 8) \o MathPair }

\* ok = InputValidationService.<fn>(value)
ValidatorCall(fn, value, ok) ==
    /\ call' = Call(fn, AbsentToken, NoSecret, Missing, BoolStr(ok), value, 0)
    /\ UNCHANGED <<users, denyList, entries, nextEntryId, now, tokens,
                   passwordVerified, resp, procs>>

ValidatorIsValidMasterUsername ==
    \E v \in ValidatorInputs :
        ValidatorCall("is_valid_master_username", v, IsValidMasterUsername(v))
ValidatorIsValidMasterPassword ==
    \E v \in ValidatorInputs :
        ValidatorCall("is_valid_master_password", v, IsValidMasterPassword(v))
ValidatorIsValidApplicationName ==
    \E v \in ValidatorInputs :
        ValidatorCall("is_valid_application_name", v, IsValidApplicationName(v))
ValidatorIsValidApplicationUsername ==
    \E v \in ValidatorInputs :
        ValidatorCall("is_valid_application_username", v, IsValidApplicationUsername(v))
ValidatorIsValidApplicationPassword ==
    \E v \in ValidatorInputs :
        ValidatorCall("is_valid_application_password", v, IsValidApplicationPassword(v))
ValidatorContainsXssRisk ==
    \E v \in ValidatorInputs :
        ValidatorCall("_contains_xss_risk", v, ContainsXssRisk(v))

NextValidator ==
    \/ ValidatorIsValidMasterUsername
    \/ ValidatorIsValidMasterPassword
    \/ ValidatorIsValidApplicationName
    \/ ValidatorIsValidApplicationUsername
    \/ ValidatorIsValidApplicationPassword
    \/ ValidatorContainsXssRisk

SpecValidator == Init /\ [][NextValidator]_vars

(***************************************************************************)
(* SpecArgon2: Argon2Service called directly, as its unit tests call it.   *)
(***************************************************************************)
PwUpper == <<"L", "O", "N", "G", "P", "A", "S", "S">>
\* the passwords hashed and tried, the empty string among them
Argon2Passwords == {Missing, PwLong, PwShort, PwUpper}
Argon2Salts == {"salt1", "salt2", "salt3"}
InvalidHash == PlainText(<<"i", "n", "v", "a", "l", "i", "d">>)
EmptyHash == PlainText(Missing)
\* what hash_password returns, and what the older hasher returned
CurrentHashes == {HashPassword(p, salt) : p \in Argon2Passwords, salt \in Argon2Salts}
OldHashes == {OldHasherHash(p, salt) : p \in Argon2Passwords, salt \in Argon2Salts}

\* a direct call of an Argon2Service method: its arguments, the hash it was
\* given or returned, and its result
Argon2Call(fn, hashed_password, password, result) ==
    [fn |-> fn, token |-> AbsentToken, secret |-> NoSecret, code |-> Missing,
     at |-> now, result |-> result, value |-> password, row |-> 0,
     hash |-> hashed_password]

\* hash_value = argon2_service.hash_password(string)
Argon2HashPassword ==
    \E string \in Argon2Passwords, salt \in Argon2Salts :
        /\ call' = Argon2Call("hash_password", HashPassword(string, salt),
                              string, "hash")
        /\ UNCHANGED <<users, denyList, entries, nextEntryId, now, tokens,
                       passwordVerified, resp, procs>>
\* argon2_service.verify_hash(hashed_password, password)
Argon2VerifyHash ==
    \E hashed_password \in CurrentHashes \cup OldHashes \cup {InvalidHash, EmptyHash},
       password \in Argon2Passwords :
        /\ call' = Argon2Call("verify_hash", hashed_password, password,
                              BoolStr(VerifyHash(hashed_password, password)))
        /\ UNCHANGED <<users, denyList, entries, nextEntryId, now, tokens,
                       passwordVerified, resp, procs>>
\* argon2_service.check_needs_rehash(hashed_password)
Argon2CheckNeedsRehash ==
    \E hashed_password \in CurrentHashes \cup OldHashes :
        /\ call' = Argon2Call("check_needs_rehash", hashed_password, Missing,
                              BoolStr(CheckNeedsRehash(hashed_password)))
        /\ UNCHANGED <<users, denyList, entries, nextEntryId, now, tokens,
                       passwordVerified, resp, procs>>

NextArgon2 ==
    \/ Argon2HashPassword
    \/ Argon2VerifyHash
    \/ Argon2CheckNeedsRehash

SpecArgon2 == Init /\ [][NextArgon2]_vars

(***************************************************************************)
(* SpecSession: one account (a@b.co) through enrolment, then its tokens,   *)
(* the deny list, the clock and the vault routes.                          *)
(***************************************************************************)
SessionRegisterUser ==
    \E salt \in Salts : RegisterUser(UserEmail, PwLong, salt) /\ UNCHANGED <<call, procs>>
SessionSetupTotp == SetupTotp(UserEmail, "SECRETA", FALSE) /\ UNCHANGED <<call, procs>>
SessionVerifyTotp ==
    \E c \in Codes, t \in SecondReads :
        VerifyTotp(UserEmail, c, t) /\ WithinBounds /\ UNCHANGED <<call, procs>>
\* the tokens the requests of this specification carry: the issued ones, and
\* an empty, a malformed and a badly signed one
SessionTokens == tokens \cup {EmptyToken, MalformedToken, WrongSecretToken}
SessionAddJwtToDenyList ==
    \E jwt \in SessionTokens \ {MalformedToken} :
        AddJwtToDenyList(jwt) /\ WithinBounds /\ UNCHANGED <<call, procs>>
SessionAddUpdatePassword ==
    \E jwt \in SessionTokens, f \in VaultFields, id_ \in EntryIds :
        /\ AddUpdatePassword(jwt, f[1], f[2], f[3], id_)
        /\ WithinBounds
        /\ UNCHANGED <<call, procs>>
SessionDeletePassword ==
    \E jwt \in SessionTokens, id_ \in EntryIds :
        DeletePassword(jwt, id_) /\ UNCHANGED <<call, procs>>
SessionGetAllPasswords ==
    \E jwt \in SessionTokens : GetAllPasswords(jwt) /\ UNCHANGED <<call, procs>>

SessionTick == \E t \in ClockValues : TickTo(t) /\ UNCHANGED <<call, procs>>

NextSession ==
    \/ SessionRegisterUser
    \/ SessionSetupTotp
    \/ SessionVerifyTotp
    \/ SessionAddJwtToDenyList
    \/ SessionAddUpdatePassword
    \/ SessionDeletePassword
    \/ SessionGetAllPasswords
    \/ SessionTick

SpecSession == Init /\ [][NextSession]_vars

(***************************************************************************)
(* SpecService: JwtTokenService and Totp called directly, as their unit    *)
(* tests call them, with the clock moving between the calls.               *)
(***************************************************************************)
\* rows of the jwt_denylist table in this specification
MaxRevokes == 2

\* token = service.generate_jwt(username)
GenerateJwtCall(username, exp_now) ==
    LET jwt == GenerateJwt(username, exp_now)
    IN  /\ tokens' = tokens \cup {jwt}
        /\ now' = exp_now
        /\ call' = Call("generate_jwt", jwt, NoSecret, Missing, "token", username, 0)
        /\ UNCHANGED <<users, denyList, entries, nextEntryId, passwordVerified,
                       resp, procs>>

\* service.validate_jwt(encoded_jwt)
ValidateJwtCall(encoded_jwt) ==
    /\ call' = Call("validate_jwt", encoded_jwt, NoSecret, Missing,
                    BoolStr(ValidateJwt(encoded_jwt)), Missing, 0)
    /\ UNCHANGED <<users, denyList, entries, nextEntryId, now, tokens,
                   passwordVerified, resp, procs>>

\* service.get_username_from_jwt(encoded_jwt)
GetUsernameFromJwtCall(encoded_jwt) ==
    LET outcome == GetUsernameOutcome(encoded_jwt, now)
    IN  /\ call' = Call("get_username_from_jwt", encoded_jwt, NoSecret, Missing,
                        outcome.result, outcome.value, 0)
        /\ UNCHANGED <<users, denyList, entries, nextEntryId, now, tokens,
                       passwordVerified, resp, procs>>

\* service.add_jwt_to_deny_list(encoded_jwt); row is the id of the new row
AddJwtToDenyListCall(encoded_jwt) ==
    /\ AddJwtToDenyList(encoded_jwt)
    /\ call' = Call("add_jwt_to_deny_list", encoded_jwt, NoSecret, Missing,
                    resp'.status, Missing,
                    IF denyList' # denyList THEN Len(denyList') ELSE 0)
    /\ UNCHANGED procs

\* Totp.verify_totp_code(secret, user_code)
VerifyTotpCodeCall(secret, user_code) ==
    /\ call' = Call("verify_totp_code", AbsentToken, secret, user_code,
                    VerifyTotpCodeOutcome(secret, user_code), Missing, 0)
    /\ UNCHANGED <<users, denyList, entries, nextEntryId, now, tokens,
                   passwordVerified, resp, procs>>

\* the tokens the calls of this specification are given
ServiceTokens == tokens \cup ForgedTokens \cup AlgTokens

ServiceGenerateJwt ==
    \E t \in SecondReads :
        GenerateJwtCall(UserEmail, t) /\ Cardinality(tokens') <= MaxTokens
ServiceValidateJwt == \E jwt \in ServiceTokens : ValidateJwtCall(jwt)
ServiceGetUsernameFromJwt == \E jwt \in ServiceTokens : GetUsernameFromJwtCall(jwt)
ServiceAddJwtToDenyList ==
    \E jwt \in tokens \cup {AbsentToken, EmptyToken, MalformedToken} :
        AddJwtToDenyListCall(jwt) /\ Len(denyList') <= MaxRevokes
ServiceVerifyTotpCode ==
    \E secret \in {"SECRETA", NoSecret},
       user_code \in CodesNear("SECRETA") \cup {TotpAt("SECRETB", now), WrongCode, Missing} :
        VerifyTotpCodeCall(secret, user_code)
ServiceTick == \E t \in ClockValues : TickTo(t) /\ UNCHANGED <<call, procs>>

NextService ==
    \/ ServiceGenerateJwt
    \/ ServiceValidateJwt
    \/ ServiceGetUsernameFromJwt
    \/ ServiceAddJwtToDenyList
    \/ ServiceVerifyTotpCode
    \/ ServiceTick

SpecService == Init /\ [][NextService]_vars

(***************************************************************************)
(* SpecConcurrent: requests served at the same time, each calling          *)
(* validate_jwt or add_jwt_to_deny_list statement by statement.  A query   *)
(* reads the rows committed so far; a row added to a session is seen by     *)
(* the others from its commit on.                                          *)
(***************************************************************************)
\* a request calls add_jwt_to_deny_list(encoded_jwt)
StartRevoke(p, encoded_jwt) ==
    /\ procs[p].pc = "idle"
    /\ procs' = [procs EXCEPT ![p] =
                    [IdleProc EXCEPT !.kind = "revoke", !.pc = "guard",
                                     !.token = encoded_jwt]]
    /\ UNCHANGED <<users, denyList, entries, nextEntryId, now, tokens,
                   passwordVerified, resp, call>>

\* `if not encoded_jwt: raise ValueError`; else JwtDenyList(token=...) and
\* db.session.add, which leaves the row pending in this request's session
RevokeAdd(p) ==
    /\ procs[p].kind = "revoke"
    /\ procs[p].pc = "guard"
    /\ procs' = [procs EXCEPT ![p] =
                    IF Falsy(@.token)
                    THEN [@ EXCEPT !.pc = "done", !.result = "ValueError"]
                    ELSE [@ EXCEPT !.pc = "added"]]
    /\ UNCHANGED <<users, denyList, entries, nextEntryId, now, tokens,
                   passwordVerified, resp, call>>

\* add_jwt_to_deny_list returning without db.session.commit()
RevokeCommitNotWritten(p) ==
    /\ procs[p].kind = "revoke"
    /\ procs[p].pc = "added"
    /\ denyList' = denyList
    /\ procs' = [procs EXCEPT ![p] = [@ EXCEPT !.pc = "done", !.result = "None"]]
    /\ UNCHANGED <<users, entries, nextEntryId, now, tokens,
                   passwordVerified, resp, call>>

\* db.session.commit(): the row is in the table, and the call returns None
RevokeCommit(p) ==
    /\ procs[p].kind = "revoke"
    /\ procs[p].pc = "added"
    /\ denyList' = Append(denyList, procs[p].token)
    /\ procs' = [procs EXCEPT ![p] = [@ EXCEPT !.pc = "done", !.result = "None"]]
    /\ UNCHANGED <<users, entries, nextEntryId, now, tokens,
                   passwordVerified, resp, call>>

\* some add_jwt_to_deny_list(encoded_jwt) has returned
RevokeCompleted(encoded_jwt) ==
    \E r \in Procs :
        /\ procs[r].kind = "revoke"
        /\ procs[r].pc = "done"
        /\ procs[r].result = "None"
        /\ procs[r].token = encoded_jwt

\* a request calls validate_jwt(encoded_jwt); after_revoke notes whether a
\* revocation of that token had returned by then
StartValidate(p, encoded_jwt) ==
    /\ procs[p].pc = "idle"
    /\ procs' = [procs EXCEPT ![p] =
                    [IdleProc EXCEPT !.kind = "validate", !.pc = "query",
                                     !.token = encoded_jwt,
                                     !.after_revoke = RevokeCompleted(encoded_jwt)]]
    /\ UNCHANGED <<users, denyList, entries, nextEntryId, now, tokens,
                   passwordVerified, resp, call>>

\* JwtDenyList.query.filter_by(token=encoded_jwt).first(); return False if
\* a row came back
ValidateQuery(p) ==
    /\ procs[p].kind = "validate"
    /\ procs[p].pc = "query"
    /\ procs' = [procs EXCEPT ![p] =
                    IF OnDenyList(denyList, @.token)
                    THEN [@ EXCEPT !.pc = "done", !.found = TRUE, !.result = "False"]
                    ELSE [@ EXCEPT !.pc = "decode"]]
    /\ UNCHANGED <<users, denyList, entries, nextEntryId, now, tokens,
                   passwordVerified, resp, call>>

\* return bool(jwt.decode(...)), False on any exception
ValidateDecode(p) ==
    /\ procs[p].kind = "validate"
    /\ procs[p].pc = "decode"
    /\ procs' = [procs EXCEPT ![p] =
                    [@ EXCEPT !.pc = "done",
                              !.result = BoolStr(JwtDecode(procs[p].token, "JWT_SECRET",
                                                           {"HS256"}, now).ok)]]
    /\ UNCHANGED <<users, denyList, entries, nextEntryId, now, tokens,
                   passwordVerified, resp, call>>

ConcurrentStartRevoke ==
    \E p \in Procs, jwt \in tokens \cup {EmptyToken} : StartRevoke(p, jwt)
ConcurrentRevokeAdd == \E p \in Procs : RevokeAdd(p)
ConcurrentRevokeCommit ==
    \E p \in Procs : RevokeCommit(p) /\ Len(denyList') <= MaxRevokes
ConcurrentStartValidate ==
    \E p \in Procs, jwt \in tokens \cup {WrongSecretToken} : StartValidate(p, jwt)
ConcurrentValidateQuery == \E p \in Procs : ValidateQuery(p)
ConcurrentValidateDecode == \E p \in Procs : ValidateDecode(p)

NextConcurrent ==
    \/ ServiceGenerateJwt
    \/ ServiceTick
    \/ ConcurrentStartRevoke
    \/ ConcurrentRevokeAdd
    \/ ConcurrentRevokeCommit
    \/ ConcurrentStartValidate
    \/ ConcurrentValidateQuery
    \/ ConcurrentValidateDecode

SpecConcurrent == Init /\ [][NextConcurrent]_vars

(***************************************************************************)
(* SpecIssue: generate_jwt called several times, for the same and for      *)
(* different usernames, in the same second and in different ones.          *)
(***************************************************************************)
\* one call of generate_jwt, with the two instants at which it read the clock
IssueGenerateJwt(p, username, exp_now) ==
    LET jwt == GenerateJwt(username, exp_now)
    IN  /\ procs[p].pc = "idle"
        /\ tokens' = tokens \cup {jwt}
        /\ now' = exp_now
        /\ procs' = [procs EXCEPT ![p] =
                        [kind |-> "generate", pc |-> "done", token |-> jwt,
                         after_revoke |-> FALSE, found |-> FALSE,
                         result |-> "token", username |-> username,
                         iat_read |-> now, exp_read |-> exp_now]]
        /\ UNCHANGED <<users, denyList, entries, nextEntryId, passwordVerified,
                       resp, call>>

IssueDoGenerateJwt ==
    \E p \in Procs, username \in Usernames, t \in SecondReads :
        IssueGenerateJwt(p, username, t)

NextIssue ==
    \/ IssueDoGenerateJwt
    \/ ServiceTick

SpecIssue == Init /\ [][NextIssue]_vars

(***************************************************************************)
(* SpecVault: two accounts, each enrolled and holding a session token,     *)
(* on the vault routes.                                                    *)
(***************************************************************************)
VaultRegisterUser ==
    \E u \in Usernames, salt \in Salts :
        RegisterUser(u, PwLong, salt) /\ UNCHANGED <<call, procs>>
VaultSetupTotp ==
    \E u \in Usernames : SetupTotp(u, "SECRETA", FALSE) /\ UNCHANGED <<call, procs>>
VaultVerifyTotp ==
    \E u \in Usernames, c \in {TotpAt("SECRETA", now), WrongCode} :
        VerifyTotp(u, c, now) /\ UNCHANGED <<call, procs>>
\* two valid triples of fields, and one the validator rejects
VaultRequestFields ==
    { <<NameA, AppUserA, PwLong>>, <<NameB, AppUserA, PwLong>>,
      <<NameTag, AppUserA, PwLong>> }
VaultAddUpdatePassword ==
    \E jwt \in tokens \cup {EmptyToken}, f \in VaultRequestFields, id_ \in EntryIds :
        /\ AddUpdatePassword(jwt, f[1], f[2], f[3], id_)
        /\ nextEntryId' <= MaxEntries + 1
        /\ UNCHANGED <<call, procs>>
VaultDeletePassword ==
    \E jwt \in tokens \cup {EmptyToken}, id_ \in EntryIds :
        DeletePassword(jwt, id_) /\ UNCHANGED <<call, procs>>
VaultGetAllPasswords ==
    \E jwt \in tokens \cup {EmptyToken} :
        GetAllPasswords(jwt) /\ UNCHANGED <<call, procs>>

VaultAddJwtToDenyList ==
    \E jwt \in tokens \cup {EmptyToken} :
        /\ AddJwtToDenyList(jwt)
        /\ Len(denyList') <= MaxRevokes
        /\ UNCHANGED <<call, procs>>

NextVault ==
    \/ VaultAddJwtToDenyList
    \/ VaultRegisterUser
    \/ VaultSetupTotp
    \/ VaultVerifyTotp
    \/ VaultAddUpdatePassword
    \/ VaultDeletePassword
    \/ VaultGetAllPasswords

SpecVault == Init /\ [][NextVault]_vars

(***************************************************************************)
(* SpecRace: a vault request and a revocation of the token it carries,     *)
(* as two requests whose statements interleave.  The vault handlers check  *)
(* the token first and commit their change last.                           *)
(***************************************************************************)
RaceProcs == {"p1", "p2"}
VaultKinds == {"add_update_password", "delete_password"}

\* a vault request arrives with its token and its "id" field
StartVaultRequest(p, kind, encoded_jwt, id_) ==
    /\ procs[p].pc = "idle"
    /\ procs' = [procs EXCEPT ![p] =
                    [kind |-> kind, pc |-> "check", token |-> encoded_jwt,
                     after_revoke |-> FALSE, found |-> FALSE, result |-> "",
                     id_ |-> id_]]
    /\ UNCHANGED <<users, denyList, entries, nextEntryId, now, tokens,
                   passwordVerified, resp, call>>

\* `if not jwt or not jwt_token.validate_jwt(jwt): return ..., 400`
VaultCheckToken(p) ==
    /\ procs[p].kind \in VaultKinds
    /\ procs[p].pc = "check"
    /\ procs' = [procs EXCEPT ![p] =
                    IF ~VaultAuthorized(procs[p].token)
                    THEN [@ EXCEPT !.pc = "done", !.result = "400"]
                    ELSE [@ EXCEPT !.pc = "write"]]
    /\ UNCHANGED <<users, denyList, entries, nextEntryId, now, tokens,
                   passwordVerified, resp, call>>

\* the rest of add_update_password, for valid fields: the user of the token,
\* the lookup by id, the update or the new row, and the commit
VaultWriteAddUpdate(p) ==
    LET jwt == procs[p].token
        id_ == procs[p].id_
    IN  /\ procs[p].kind = "add_update_password"
        /\ procs[p].pc = "write"
        /\ IF ~UserExists(GetUsernameFromJwt(jwt))
           THEN /\ procs' = [procs EXCEPT ![p] =
                                [@ EXCEPT !.pc = "done", !.result = "404"]]
                /\ UNCHANGED <<entries, nextEntryId>>
           ELSE LET user == UserRow(GetUsernameFromJwt(jwt))
                    existing_entry == EntryById(id_)
                IN  /\ IF existing_entry # {}
                       THEN /\ entries' =
                                   (entries \ existing_entry) \cup
                                   {[e EXCEPT !.application = NameB,
                                              !.username = AppUserA,
                                              !.password = PwLong] : e \in existing_entry}
                            /\ nextEntryId' = nextEntryId
                       ELSE /\ entries' = entries \cup
                                   {[id |-> nextEntryId,
                                     user_id |-> user.id,
                                     application |-> NameB,
                                     username |-> AppUserA,
                                     password |-> PwLong]}
                            /\ nextEntryId' = nextEntryId + 1
                    /\ procs' = [procs EXCEPT ![p] =
                                    [@ EXCEPT !.pc = "done", !.result = "201"]]
        /\ UNCHANGED <<users, denyList, now, tokens, passwordVerified, resp, call>>

\* the rest of delete_password: the id, the user of the token, the entry of
\* that user, the delete and the commit
VaultWriteDelete(p) ==
    LET jwt == procs[p].token
        id_ == procs[p].id_
    IN  /\ procs[p].kind = "delete_password"
        /\ procs[p].pc = "write"
        /\ IF id_ = 0
           THEN /\ procs' = [procs EXCEPT ![p] =
                                [@ EXCEPT !.pc = "done", !.result = "400"]]
                /\ entries' = entries
           ELSE IF ~UserExists(GetUsernameFromJwt(jwt))
           THEN /\ procs' = [procs EXCEPT ![p] =
                                [@ EXCEPT !.pc = "done", !.result = "404"]]
                /\ entries' = entries
           ELSE LET user == UserRow(GetUsernameFromJwt(jwt))
                    entry == EntryOfUser(user.id, id_)
                IN  IF entry = {}
                    THEN /\ procs' = [procs EXCEPT ![p] =
                                        [@ EXCEPT !.pc = "done", !.result = "404"]]
                         /\ entries' = entries
                    ELSE /\ entries' = entries \ entry
                         /\ procs' = [procs EXCEPT ![p] =
                                        [@ EXCEPT !.pc = "done", !.result = "200"]]
        /\ UNCHANGED <<users, denyList, nextEntryId, now, tokens,
                       passwordVerified, resp, call>>

\* the response has gone out and the worker takes the next request
RequestReturns(p) ==
    /\ procs[p].kind \in VaultKinds
    /\ procs[p].pc = "done"
    /\ procs' = [procs EXCEPT ![p] = IdleProc]
    /\ UNCHANGED <<users, denyList, entries, nextEntryId, now, tokens,
                   passwordVerified, resp, call>>

RaceStartVaultRequest ==
    \E p \in RaceProcs, kind \in VaultKinds, jwt \in tokens \cup {EmptyToken},
       id_ \in EntryIds :
        StartVaultRequest(p, kind, jwt, id_)
RaceVaultCheckToken == \E p \in RaceProcs : VaultCheckToken(p)
RaceVaultWriteAddUpdate ==
    \E p \in RaceProcs : VaultWriteAddUpdate(p) /\ nextEntryId' <= MaxEntries + 1
RaceVaultWriteDelete == \E p \in RaceProcs : VaultWriteDelete(p)
RaceRequestReturns == \E p \in RaceProcs : RequestReturns(p)
RaceStartRevoke == \E p \in RaceProcs, jwt \in tokens : StartRevoke(p, jwt)
RaceRevokeAdd == \E p \in RaceProcs : RevokeAdd(p)
RaceRevokeCommit ==
    \E p \in RaceProcs : RevokeCommit(p) /\ Len(denyList') <= MaxDeny

NextRace ==
    \/ SessionRegisterUser
    \/ SessionSetupTotp
    \/ SessionVerifyTotp
    \/ RaceStartVaultRequest
    \/ RaceVaultCheckToken
    \/ RaceVaultWriteAddUpdate
    \/ RaceVaultWriteDelete
    \/ RaceRequestReturns
    \/ RaceStartRevoke
    \/ RaceRevokeAdd
    \/ RaceRevokeCommit

SpecRace == Init /\ [][NextRace]_vars

(***************************************************************************)
(* SpecRegister: register_user requests in progress at the same time.      *)
(* Each one looks the username up, then hashes the password, and inserts   *)
(* its row at the commit; users.username is declared unique.               *)
(***************************************************************************)
\* a register request arrives with both fields present
StartRegister(p, new_username, new_password) ==
    /\ procs[p].pc = "idle"
    /\ procs' = [procs EXCEPT ![p] =
                    [kind |-> "register", pc |-> "check", token |-> AbsentToken,
                     after_revoke |-> FALSE, found |-> FALSE, result |-> "",
                     username |-> new_username, password |-> new_password]]
    /\ UNCHANGED <<users, denyList, entries, nextEntryId, now, tokens,
                   passwordVerified, resp, call>>

\* `if User.query.filter_by(username=new_username).first(): return ..., 409`
RegisterCheck(p) ==
    /\ procs[p].kind = "register"
    /\ procs[p].pc = "check"
    /\ procs' = [procs EXCEPT ![p] =
                    IF UserExists(procs[p].username)
                    THEN [@ EXCEPT !.pc = "done", !.result = "409"]
                    ELSE [@ EXCEPT !.pc = "commit"]]
    /\ UNCHANGED <<users, denyList, entries, nextEntryId, now, tokens,
                   passwordVerified, resp, call>>

\* the commit of a users table whose username column is not unique
RegisterCommitNoUniqueConstraint(p, salt) ==
    /\ procs[p].kind = "register"
    /\ procs[p].pc = "commit"
    /\ users' = users \cup
            {[id |-> Cardinality(users) + 1,
              username |-> procs[p].username,
              password |-> HashPassword(procs[p].password, salt),
              secret |-> NoSecret]}
    /\ procs' = [procs EXCEPT ![p] = [@ EXCEPT !.pc = "done", !.result = "201"]]
    /\ UNCHANGED <<denyList, entries, nextEntryId, now, tokens,
                   passwordVerified, resp, call>>

\* hash_password, User(...), db.session.add and db.session.commit(): the
\* insert fails on the unique username when a row with it has been committed
\* meanwhile, and the handler rolls back and answers 500
RegisterCommit(p, salt) ==
    /\ procs[p].kind = "register"
    /\ procs[p].pc = "commit"
    /\ IF UserExists(procs[p].username)
       THEN /\ users' = users
            /\ procs' = [procs EXCEPT ![p] =
                            [@ EXCEPT !.pc = "done", !.result = "500"]]
       ELSE /\ users' = users \cup
                    {[id |-> Cardinality(users) + 1,
                      username |-> procs[p].username,
                      password |-> HashPassword(procs[p].password, salt),
                      secret |-> NoSecret]}
            /\ procs' = [procs EXCEPT ![p] =
                            [@ EXCEPT !.pc = "done", !.result = "201"]]
    /\ UNCHANGED <<denyList, entries, nextEntryId, now, tokens,
                   passwordVerified, resp, call>>

RegisterStart ==
    \E p \in Procs, u \in Usernames, pw \in Passwords : StartRegister(p, u, pw)
RegisterDoCheck == \E p \in Procs : RegisterCheck(p)
RegisterDoCommit == \E p \in Procs, salt \in Salts : RegisterCommit(p, salt)

NextRegister ==
    \/ RegisterStart
    \/ RegisterDoCheck
    \/ RegisterDoCommit

SpecRegister == Init /\ [][NextRegister]_vars

(***************************************************************************)
(* Properties                                                              *)
(***************************************************************************)
\* the four checks of the token contract, stated on the token's parts
WellFormed(t) == t.form = "jwt"
SignedByServer(t) == t.alg = "HS256" /\ t.key = "JWT_SECRET"
ExpiredAt(t, clock) == clock >= t.exp
RevokedIn(deny, t) == t \in {deny[i] : i \in 1..Len(deny)}
\* the account a token's subject names
AccountOf(t) == {u \in users : u.username = t.sub}

\* C1: a token validates immediately after the route that issued it returned
\* it; a token on the deny list does not validate, although not expired; a
\* token whose expiry the clock has reached does not validate.
C1_IssueValidateRevokeExpire ==
    [][ /\ \A t \in resp'.body :
              (resp'.op = "verify_totp" /\ resp'.status = "200" /\ resp' # resp)
                  => ValidateJwtAt(denyList', now', t)
        /\ \A t \in tokens' :
              (RevokedIn(denyList', t) /\ ~ExpiredAt(t, now'))
                  => ~ValidateJwtAt(denyList', now', t)
        /\ \A t \in tokens' :
              ExpiredAt(t, now') => ~ValidateJwtAt(denyList', now', t) ]_vars

\* C5: expired and revoked are terminal: a token that is expired stays
\* expired, a token on the deny list stays on it, and such a token does not
\* validate after any further operation.
C5_ExpiredRevokedTerminal ==
    [][ \A t \in RequestTokens :
            /\ (WellFormed(t) /\ ExpiredAt(t, now)) => ExpiredAt(t, now')
            /\ RevokedIn(denyList, t) => RevokedIn(denyList', t)
            /\ (WellFormed(t) /\ (ExpiredAt(t, now) \/ RevokedIn(denyList, t)))
                  => ~ValidateJwtAt(denyList', now', t) ]_vars
\* a token revoked before its expiry, and a vault request answered after that
C5_Witness ==
    /\ \E t \in tokens : RevokedIn(denyList, t) /\ ~ExpiredAt(t, now)
    /\ resp.op = "get_all_passwords"

\* C6: validate_jwt answers true exactly for a well-formed token signed by
\* the server with HS256, not expired and not on the deny list, and answers
\* false (a Boolean, no exception) for every other token a request can carry.
C6_ValidateExact ==
    \A t \in RequestTokens :
        /\ ValidateJwt(t) \in BOOLEAN
        /\ ValidateJwt(t) = ( /\ WellFormed(t)
                              /\ SignedByServer(t)
                              /\ ~ExpiredAt(t, now)
                              /\ ~RevokedIn(denyList, t) )
\* an issued token that is on the deny list before its expiry and is refused
C6_Witness ==
    \E t \in tokens :
        /\ ~ExpiredAt(t, now)
        /\ RevokedIn(denyList, t)
        /\ ~ValidateJwt(t)

VaultOps == {"add_update_password", "delete_password", "get_all_passwords"}
\* the token passes the four checks and its subject is an account
TokenAdmits(t) ==
    /\ WellFormed(t)
    /\ SignedByServer(t)
    /\ ~ExpiredAt(t, now)
    /\ ~RevokedIn(denyList, t)
    /\ AccountOf(t) # {}

\* C2: only a vault request changes the entries table; a vault request
\* creates, updates, deletes or lists entries only if its token validates and
\* the token's subject is an existing account; with any other token (revoked,
\* expired, malformed, badly signed, empty) it is rejected with 400 and the
\* entries table is unchanged.
C2_VaultNeedsValidToken ==
    [][ /\ entries' # entries => resp'.op \in VaultOps
        /\ ((resp' # resp \/ entries' # entries) /\ resp'.op \in VaultOps)
              => \/ TokenAdmits(resp'.jwt)
                 \/ /\ entries' = entries
                    /\ resp'.status = "400"
                    /\ resp'.body = {} ]_vars
\* a stored entry, its owner's token revoked before expiry, and a vault
\* write then rejected
C2_Witness ==
    /\ entries # {}
    /\ \E t \in tokens : RevokedIn(denyList, t) /\ ~ExpiredAt(t, now)
    /\ resp.op = "delete_password"
    /\ resp.status = "400"

\* C3: every issued token's subject has had its master password verified by
\* a login before the token was issued.
C3_TokenOnlyAfterPassword ==
    \A t \in tokens : t.sub \in passwordVerified

\* C4: a token for an account whose MFA secret is set is issued only by a
\* successful TOTP verification; a successful login issues no token.
C4_MfaAccountTokenNeedsTotp ==
    [][ /\ \A t \in tokens' \ tokens :
              (\E u \in AccountOf(t) : u.secret # NoSecret)
                  => (resp'.op = "verify_totp" /\ resp'.status = "200")
        /\ \A u \in Usernames, p \in Passwords, salt \in Salts :
              Login(u, p, salt) => tokens' = tokens ]_vars

\* C7: a successful login to an account without an MFA secret ends with a
\* session token issued for that account.
C7_LoginWithoutMfaIssuesToken ==
    [][ \A u \in Usernames, p \in Passwords, salt \in Salts :
            ( /\ Login(u, p, salt)
              /\ resp'.status = "200"
              /\ UserRow(u).secret = NoSecret )
                => \E t \in tokens' : t.sub = u /\ t \in resp'.body ]_vars

\* C8: once a TOTP code has been accepted against an account's secret, no
\* operation changes that account's stored secret.
C8_VerifiedSecretNeverChanges ==
    [][ \A u \in users :
            ( /\ resp.op = "verify_totp"
              /\ resp.status = "200"
              /\ \E t \in resp.body : t.sub = u.username )
                => \E v \in users' : v.username = u.username /\ v.secret = u.secret ]_vars

\* C9 as stated: a register request whose username is not a 1-80 character
\* email address or whose password is not 8-255 characters long is rejected
\* and creates no account.
C9_RegisterValidatesShape ==
    [][ \A u \in Usernames \cup {Missing}, p \in Passwords \cup {Missing},
           salt \in Salts :
            ( /\ RegisterUser(u, p, salt)
              /\ ~( /\ IsValidMasterUsername(u)
                    /\ IsValidMasterPassword(p)
                    /\ Len(Strip(p)) <= 255 ) )
                => (users' = users /\ resp'.status # "201") ]_vars

\* C9 as amended: registration checks only that username and password are
\* present: a request with either missing or empty is rejected with 400 and
\* creates no account; any other request for a new username creates the
\* account (201) with a hash of the password, whatever the shape of the two.
C9_RegisterChecksPresenceOnly ==
    [][ \A u \in Usernames \cup {Missing}, p \in Passwords \cup {Missing},
           salt \in Salts :
            RegisterUser(u, p, salt) =>
                /\ (u = Missing \/ p = Missing)
                      => (users' = users /\ resp'.status = "400")
                /\ (u # Missing /\ p # Missing /\ AccountOf([sub |-> u]) = {})
                      => /\ resp'.status = "201"
                         /\ \E row \in users' \ users :
                               /\ row.username = u
                               /\ VerifyHash(row.password, p)
                               /\ users' = users \cup {row} ]_vars
\* an account whose username is no email address and whose password is
\* shorter than 8 characters has been registered
C9_Witness ==
    /\ resp.op = "register"
    /\ resp.status = "201"
    /\ \E row \in users :
          /\ ~IsValidMasterUsername(row.username)
          /\ VerifyHash(row.password, PwShort)
          /\ ~IsValidMasterPassword(PwShort)

\* C10: a register request (carrying a username and a password) for a
\* username that has an account is answered 409 and leaves the users table
\* as it was: same password hash, same MFA secret, no second row.  No two
\* rows ever share a username.
C10_DuplicateRegisterRejected ==
    [][ /\ \A u \in Usernames, p \in Passwords, salt \in Salts :
              (RegisterUser(u, p, salt) /\ AccountOf([sub |-> u]) # {})
                  => (resp'.status = "409" /\ users' = users)
        /\ \A a, b \in users' : a.username = b.username => a = b ]_vars
\* a duplicate registration was refused for an account that has an MFA secret
C10_Witness ==
    /\ resp.op = "register"
    /\ resp.status = "409"
    /\ \E row \in users : row.secret # NoSecret

\* C11: in any state, a login with an unknown username and a login with a
\* wrong password for an existing username get one and the same response,
\* 401 "Invalid credentials", and lead to one and the same state: no token is
\* issued and no table changes.
C11_FailedLoginUniform ==
    [][ \A u1, u2 \in Usernames, p1, p2 \in Passwords, salt \in Salts :
            ( /\ ~UserExists(u1)
              /\ UserExists(u2)
              /\ ~VerifyHash(UserRow(u2).password, p2)
              /\ Login(u1, p1, salt) )
                => /\ Login(u2, p2, salt)
                   /\ resp'.status = "401"
                   /\ resp'.error = "Invalid credentials"
                   /\ resp'.body = {}
                   /\ tokens' = tokens
                   /\ users' = users
                   /\ denyList' = denyList
                   /\ entries' = entries ]_vars
\* a login was refused while one of the two usernames has an account and the
\* other has none
C11_Witness ==
    /\ resp.op = "login"
    /\ resp.status = "401"
    /\ \E u1, u2 \in Usernames : ~UserExists(u1) /\ UserExists(u2)

\* the token strings the deny list holds
Denied(deny) == {deny[i] : i \in 1..Len(deny)}

\* C12: add_jwt_to_deny_list called with an empty or absent token raises
\* ValueError and adds no row; called with any other token it returns None
\* and adds exactly one row, holding exactly that token string, after the
\* rows already there.  Nothing else changes the deny list.
C12_RevokeEmptyRaises ==
    [][ /\ denyList' # denyList => call'.fn = "add_jwt_to_deny_list"
        /\ (call'.fn = "add_jwt_to_deny_list" /\ (call' # call \/ denyList' # denyList))
              => IF call'.token.form \in {"absent", "empty"}
                 THEN /\ call'.result = "ValueError"
                      /\ denyList' = denyList
                 ELSE /\ call'.result = "None"
                      /\ denyList' = Append(denyList, call'.token) ]_vars
\* a call with an empty token raised while the deny list holds a token that
\* an earlier call recorded
C12_Witness ==
    /\ call.fn = "add_jwt_to_deny_list"
    /\ call.token = EmptyToken
    /\ call.result = "ValueError"
    /\ \E t \in tokens : t \in Denied(denyList)

\* C13 as stated: revoking a token that is already on the deny list returns
\* without error, leaves the contents of the deny list as they were and
\* leaves validate_jwt's answer for every token as it was.
C13_RevokeIdempotent ==
    [][ ( /\ call'.fn = "add_jwt_to_deny_list"
          /\ call' # call
          /\ call'.token \in Denied(denyList) )
            => /\ call'.result = "None"
               /\ denyList' = denyList
               /\ \A t \in ServiceTokens :
                      ValidateJwtAt(denyList', now', t) = ValidateJwtAt(denyList, now, t) ]_vars

\* C13 as amended: revoking a token that is already on the deny list returns
\* without error and leaves the set of denied token strings and
\* validate_jwt's answer for every token as they were; the table gains one
\* more row holding the same string.
C13_RevokeTwiceSameAnswers ==
    [][ ( /\ call'.fn = "add_jwt_to_deny_list"
          /\ call' # call
          /\ call'.token \in Denied(denyList) )
            => /\ call'.result = "None"
               /\ Denied(denyList') = Denied(denyList)
               /\ denyList' = Append(denyList, call'.token)
               /\ \A t \in ServiceTokens :
                      ValidateJwtAt(denyList', now', t) = ValidateJwtAt(denyList, now, t) ]_vars
\* an issued token revoked twice: two rows hold it
C13_Witness ==
    /\ call.fn = "add_jwt_to_deny_list"
    /\ call.row = 2
    /\ Len(denyList) = 2
    /\ denyList[1] = denyList[2]
    /\ denyList[1] \in tokens

\* C14: every token an issuing call has produced carries an expiry exactly
\* 30 minutes (1800 seconds) after its issued-at.
C14_ExpiryThirtyMinutes ==
    \A t \in tokens : t.exp - t.iat = 1800

\* C15 as stated: verify_totp_code answers true exactly for the code of the
\* current 30-second step, of the step before it or of the step after it.
C15_TotpWindowOne ==
    (call.fn = "verify_totp_code" /\ call.result # "ValueError")
        => ( call.result = "True"
               <=> \E d \in -1..1 :
                      /\ call.at + d * 30 >= 0
                      /\ call.code = <<call.secret, (call.at + d * 30) \div 30>> )

\* C15 as amended: verify_totp_code answers true exactly for the code of the
\* current 30-second step; the codes of the steps before and after it are
\* rejected.
C15_TotpCurrentStepOnly ==
    (call.fn = "verify_totp_code" /\ call.result # "ValueError")
        => /\ call.result \in {"True", "False"}
           /\ call.result = "True"
                 <=> call.code = <<call.secret, call.at \div 30>>
\* the code of the immediately preceding step was presented and rejected
C15_Witness ==
    /\ call.fn = "verify_totp_code"
    /\ call.at >= 30
    /\ call.code = <<call.secret, (call.at - 30) \div 30>>
    /\ call.result = "False"

\* C16: get_username_from_jwt returns the subject the token was issued for
\* when the token is well formed, signed by the server with HS256 and not
\* expired, and returns None, raising nothing, for every other token; the
\* subject decoded from a token just issued for s is s.
C16_DecodeSubject ==
    /\ call.fn = "get_username_from_jwt"
          => LET t == call.token
                 verifies == /\ WellFormed(t)
                             /\ SignedByServer(t)
                             /\ ~ExpiredAt(t, call.at)
             IN  /\ call.result \in {"value", "None"}
                 /\ verifies => (call.result = "value" /\ call.value = t.sub)
                 /\ ~verifies => (call.result = "None" /\ call.value = Missing)
    /\ (call.fn = "generate_jwt" /\ ~ExpiredAt(call.token, now))
          => GetUsernameOutcome(call.token, now) =
                [result |-> "value", value |-> call.value]
\* the subject of an issued token was asked for after the token's expiry
C16_Witness ==
    /\ call.fn = "get_username_from_jwt"
    /\ call.token \in tokens
    /\ ExpiredAt(call.token, call.at)
    /\ call.result = "None"

\* C17: validate_jwt and get_username_from_jwt accept only tokens whose
\* header names HS256: a token naming another algorithm ("none" included) is
\* refused, with or without a signature made with the server's secret.
C17_AlgorithmPinned ==
    /\ call.fn \in {"validate_jwt", "get_username_from_jwt"}
          => /\ (call.token.form = "jwt" /\ call.token.alg # "HS256")
                    => call.result \in {"False", "None"}
             /\ call.result \in {"True", "value"} => call.token.alg = "HS256"
    /\ \A t \in AlgTokens :
          /\ ~ValidateJwt(t)
          /\ GetUsernameOutcome(t, now).result = "None"
\* a token naming HS512, signed with the server's secret and not expired, was
\* refused
C17_Witness ==
    /\ call.fn = "validate_jwt"
    /\ call.token = Hs512Token
    /\ ~ExpiredAt(call.token, call.at)
    /\ call.result = "False"

\* C18: under every interleaving of the statements of concurrent requests, a
\* validate_jwt(t) called after an add_jwt_to_deny_list(t) has returned
\* answers False.
C18_NoStaleReadAfterRevoke ==
    \A p \in Procs :
        ( /\ procs[p].kind = "validate"
          /\ procs[p].pc = "done"
          /\ procs[p].after_revoke )
            => procs[p].result = "False"
\* an issued, unexpired token was refused by a validate_jwt that started
\* after its revocation had returned, while another validate_jwt of the same
\* token, started before, answered True
C18_Witness ==
    \E p, q \in Procs :
        /\ procs[p].kind = "validate" /\ procs[p].pc = "done"
        /\ procs[p].after_revoke
        /\ procs[p].found
        /\ procs[p].token \in tokens
        /\ ~ExpiredAt(procs[p].token, now)
        /\ procs[q].kind = "validate" /\ procs[q].pc = "done"
        /\ procs[q].token = procs[p].token
        /\ procs[q].result = "True"

\* C19: in every reachable state the password column of every row of the
\* users table holds an Argon2 hash, never the password as it was posted
C19_PasswordAlwaysHashed ==
    \A u \in users : IsArgon2Hash(u.password)

\* C20: in every reachable state the application name, username and
\* password of every row of the entries table pass InputValidationService's
\* check for their field (length bound, no XSS-risk pattern)
C20_EntriesPassValidation ==
    \A e \in entries :
        /\ IsValidApplicationName(e.application)
        /\ IsValidApplicationUsername(e.username)
        /\ IsValidApplicationPassword(e.password)
\* with an entry stored, an authorized request carrying a field the
\* validator rejects has just been refused
C20_Witness ==
    /\ entries # {}
    /\ resp.op = "add_update_password"
    /\ resp.status = "400"
    /\ resp.error = "Application name, username, or password are invalid"

\* C21: a login that succeeds on a row whose hash needs rehash replaces that
\* hash, and nothing else, by a hash of the same password under the current
\* parameters, which verifies the password and needs no rehash; a login that
\* fails, or one on a row that needs no rehash, leaves the users table as it
\* was
C21_RehashOnLogin ==
    [][\A u \in Usernames \cup {Missing}, p \in Passwords \cup {Missing},
         salt \in RehashSalts :
          Login(u, p, salt) =>
             IF /\ resp'.status = "200"
                /\ CheckNeedsRehash(UserRow(u).password)
             THEN /\ UserExists(u)'
                  /\ users' \ UserRows(u)' = users \ UserRows(u)
                  /\ Cardinality(UserRows(u)') = 1
                  /\ UserRow(u)' = [UserRow(u) EXCEPT !.password = UserRow(u)'.password]
                  /\ UserRow(u)'.password # UserRow(u).password
                  /\ IsArgon2Hash(UserRow(u)'.password)
                  /\ VerifyHash(UserRow(u)'.password, p)
                  /\ ~CheckNeedsRehash(UserRow(u)'.password)
             ELSE users' = users]_vars
\* a row hashed under the older parameters has been rehashed by a login, and
\* a login with the wrong password on a row that needs rehash was refused
C21_Witness ==
    /\ resp.op = "login"
    /\ resp.status = "401"
    /\ Cardinality(users) = Cardinality(Usernames)
    /\ \E u \in users : CheckNeedsRehash(u.password)
    /\ \E u \in users :
          /\ u.username \in passwordVerified
          /\ ~CheckNeedsRehash(u.password)
          /\ u.password.salt = "salt2"

\* C22: each field check accepts a value exactly when its length is inside
\* the policy bound of the field (master username 1-80 and master password
\* 8-255 after trimming, application name 1-120, application username 1-80,
\* application password 8-255) and the field's extra rule holds
C22_LengthPolicy ==
    LET v == call.value
        accepted == call.result = "True"
    IN  /\ call.fn = "is_valid_master_username" =>
              (accepted <=> ( /\ 1 <= Len(Strip(v)) /\ Len(Strip(v)) <= 80
                              /\ IsValidEmail(Strip(v)) ))
        /\ call.fn = "is_valid_master_password" =>
              (accepted <=> (8 <= Len(Strip(v)) /\ Len(Strip(v)) <= 255))
        /\ call.fn = "is_valid_application_name" =>
              (accepted <=> (1 <= Len(v) /\ Len(v) <= 120 /\ ~ContainsXssRisk(v)))
        /\ call.fn = "is_valid_application_username" =>
              (accepted <=> (1 <= Len(v) /\ Len(v) <= 80 /\ ~ContainsXssRisk(v)))
        /\ call.fn = "is_valid_application_password" =>
              (accepted <=> (8 <= Len(v) /\ Len(v) <= 255 /\ ~ContainsXssRisk(v)))

\* the three checks of the application fields
ApplicationChecks ==
    {"is_valid_application_name", "is_valid_application_username",
     "is_valid_application_password"}
\* a '<' with a '>' somewhere after it
HasBracketPair(v) ==
    \E i \in 1..Len(v) : v[i] = "<" /\ \E j \in (i + 1)..Len(v) : v[j] = ">"
\* a '<' or a '>' anywhere
HasAngleBracket(v) == \E i \in 1..Len(v) : v[i] \in {"<", ">"}
HasJavascriptScheme(v) ==
    ContainsIgnoreCase(v, <<"j", "a", "v", "a", "s", "c", "r", "i", "p", "t", ":">>)
\* the opening of a script, iframe, object or embed tag, or of </script
HasTagOpening(v) ==
    \E lit \in { <<"<", "s", "c", "r", "i", "p", "t">>,
                  <<"<", "/", "s", "c", "r", "i", "p", "t">>,
                  <<"<", "i", "f", "r", "a", "m", "e">>,
                  <<"<", "o", "b", "j", "e", "c", "t">>,
                  <<"<", "e", "m", "b", "e", "d">> } : ContainsIgnoreCase(v, lit)

\* C23 as stated: an application name, username or password is rejected
\* whenever it contains an angle bracket (so also "5 < 10"), a javascript:
\* scheme or an on<word>= pattern, whatever the case of the letters
C23_AnyAngleBracketRejected ==
    ( /\ call.fn \in ApplicationChecks
      /\ \/ HasAngleBracket(call.value)
         \/ HasJavascriptScheme(call.value)
         \/ HasEventHandler(call.value) )
        => call.result = "False"
\* C23, amended: an application name, username or password is rejected
\* whenever it contains a '<' with a '>' after it, the opening of a script,
\* iframe, object or embed tag, a javascript: scheme or an on<word>= pattern,
\* whatever the case of the letters; _contains_xss_risk flags exactly these
\* strings, so that "5 < 10", with its lone '<', is not flagged
C23_BracketPairRejected ==
    LET marked == \/ HasBracketPair(call.value)
                  \/ HasTagOpening(call.value)
                  \/ HasJavascriptScheme(call.value)
                  \/ HasEventHandler(call.value)
    IN  /\ (call.fn \in ApplicationChecks /\ marked) => call.result = "False"
        /\ call.fn = "_contains_xss_risk" => (call.result = "True" <=> marked)
\* an application name with two comparison operators, "5<10>5", was rejected
C23_Witness ==
    /\ call.fn = "is_valid_application_name"
    /\ call.value = MathPair
    /\ call.result = "False"

\* C24: hash_password succeeds on every password, the empty string included;
\* verify_hash of a hash of p and a candidate q is True exactly when q = p;
\* verify_hash of a malformed or empty hash string is False, and it never
\* raises
C24_VerifyExactlyThePassword ==
    /\ call.fn = "hash_password" =>
          /\ call.result = "hash"
          /\ IsArgon2Hash(call.hash)
          /\ VerifyHash(call.hash, call.value)
    /\ call.fn = "verify_hash" =>
          /\ call.result \in {"True", "False"}
          /\ \A p \in Argon2Passwords, salt \in Argon2Salts :
                call.hash \in {HashPassword(p, salt), OldHasherHash(p, salt)} =>
                    (call.result = "True" <=> call.value = p)
          /\ call.hash \in {InvalidHash, EmptyHash} => call.result = "False"
\* the hash of the empty string has verified the empty string
C24_Witness ==
    /\ call.fn = "verify_hash"
    /\ \E salt \in Argon2Salts : call.hash = HashPassword(Missing, salt)
    /\ call.value = Missing
    /\ call.result = "True"

\* the calls of generate_jwt that have returned
Issued == {p \in Procs : procs[p].kind = "generate" /\ procs[p].pc = "done"}

C26_SetupErrorLeavesSecret ==
    [][\A u \in Usernames \cup {Missing}, secret \in Secrets, qr_fails \in BOOLEAN :
          (SetupTotp(u, secret, qr_fails) /\ resp'.status # "200")
              => users' = users]_vars

\* the rows of the entries table that the account of token jwt does not own
EntriesOfOthers(jwt) ==
    {e \in entries : \A u \in AccountOf(jwt) : e.user_id # u.id}

\* C27: an add/update or delete request carrying the token of one account
\* leaves every entry of another account as it was, whatever id it names,
\* and the list request returns only entries of the token's account
C27_VaultIsolation ==
    [][\A jwt \in tokens, id_ \in EntryIds :
          /\ ( \/ \E f \in VaultRequestFields :
                     AddUpdatePassword(jwt, f[1], f[2], f[3], id_)
               \/ DeletePassword(jwt, id_) )
                => EntriesOfOthers(jwt) \subseteq entries'
          /\ (GetAllPasswords(jwt) /\ resp'.status = "200")
                => \A row \in resp'.body :
                      \E e \in entries \ EntriesOfOthers(jwt) : e.id = row.id]_vars

\* C28: whatever the interleaving of a vault add/update or delete request
\* with a revocation of the token it carries, the request changes no entry
\* once the revocation has returned
C28_NoWriteAfterRevoke ==
    [][\A p \in RaceProcs :
          ( /\ VaultWriteAddUpdate(p) \/ VaultWriteDelete(p)
            /\ RevokeCompleted(procs[p].token) )
              => entries' = entries]_vars

\* C29: add_jwt_to_deny_list changes the deny list only: the users table
\* (accounts, password hashes, TOTP secrets) and the entries table are as
\* they were, and for every token other than the revoked one validate_jwt
\* and get_username_from_jwt answer as before
C29_RevokeFrame ==
    [][\A jwt \in tokens \cup {EmptyToken} :
          AddJwtToDenyList(jwt) =>
              /\ users' = users
              /\ entries' = entries
              /\ nextEntryId' = nextEntryId
              /\ \A t \in (tokens \cup ForgedTokens) \ {jwt} :
                    /\ ValidateJwt(t)' = ValidateJwt(t)
                    /\ GetUsernameFromJwt(t)' = GetUsernameFromJwt(t)]_vars
\* with an enrolled account and a stored entry, one token has just been
\* revoked and the token of the other account still validates
C29_Witness ==
    /\ resp.op = "revoke"
    /\ resp.status = "None"
    /\ entries # {}
    /\ \E u \in users : u.secret # NoSecret
    /\ \E t, other \in tokens :
          /\ t # other
          /\ RevokedIn(denyList, t)
          /\ ~ValidateJwt(t)
          /\ ValidateJwt(other)

\* the register requests for username u that have answered with status
Registered(u, status) ==
    {p \in Procs : /\ procs[p].kind = "register"
                   /\ procs[p].pc = "done"
                   /\ procs[p].username = u
                   /\ procs[p].result = status}

\* C30: whatever the interleaving of register requests for one username, the
\* users table never holds more than one row with that username, and at most
\* one of the requests answers 201
C30_OneAccountPerUsername ==
    \A u \in Usernames :
        /\ Cardinality(UserRows(u)) <= 1
        /\ Cardinality(Registered(u, "201")) <= 1
\* two requests for one username both found it free; one was answered 201
\* and the other, failing at its commit, 500
C30_Witness ==
    \E u \in Usernames :
        /\ Registered(u, "201") # {}
        /\ Registered(u, "500") # {}
        /\ Cardinality(UserRows(u)) = 1

====
